---- MODULE Spec2Model ----
(***************************************************************************)
(* ChatPage (src/unnamed/part_004, lines 378-780): the client-side         *)
(* conversation / message lifecycle of the chat view.  The React state of  *)
(* the component, the requests it has in flight and the Remote             *)
(* Conversation Store that answers them.                                   *)
(*                                                                         *)
(* Every event handler runs to its first await as one step; the code after *)
(* an await runs as one step when the response is delivered.  A handler    *)
(* reads the state variables through the closure of the render in which    *)
(* it was created, so the values it uses after an await are the ones of    *)
(* the moment the handler was called: they are kept in the request record. *)
(***************************************************************************)
EXTENDS Integers, Sequences, FiniteSets, Bags, TLC

\* ---- bounds of the model ------------------------------------------------
\* Accepted sends, conversation selections, new-conversation clicks and delete
\* clicks in one behaviour, all together.
MaxOps == 3

\* ---- values -------------------------------------------------------------
\* The absent conversation id: `conversationId || null`, undefined route param.
Null == 0

\* Texts the user can type into the input (as sequences of characters).
Inputs == { <<" ">>, <<" ", "d", " ">> }

\* The quick prompts offered over an empty transcript ("What is dharma?", ...),
\* one standing for the three: they differ only in their text.
Prompts == { <<"d">> }

\* String.prototype.trim, computed on sequences of characters.
IsSpace(ch) == ch = " "

RECURSIVE TrimStart(_)
TrimStart(s) == IF s # <<>> /\ IsSpace(Head(s)) THEN TrimStart(Tail(s)) ELSE s

RECURSIVE TrimEnd(_)
TrimEnd(s) ==
  IF s # <<>> /\ IsSpace(s[Len(s)]) THEN TrimEnd(SubSeq(s, 1, Len(s) - 1)) ELSE s

\* Mutant: the text is used as typed.
Trim_Untrimmed(s) == s

Trim(s) == TrimEnd(TrimStart(s))

\* Array.prototype.filter(m => m.id !== id)
RECURSIVE FilterOutId(_, _)
FilterOutId(ms, id) ==
  IF ms = <<>> THEN <<>>
  ELSE IF Head(ms).id = id THEN FilterOutId(Tail(ms), id)
       ELSE <<Head(ms)>> \o FilterOutId(Tail(ms), id)

Range(s) == { s[i] : i \in 1..Len(s) }

\* A sequence without its i-th element.
RemoveAt(s, i) == SubSeq(s, 1, i - 1) \o SubSeq(s, i + 1, Len(s))

\* A sequence with its i-th element replaced.
ReplaceAt(s, i, x) == [s EXCEPT ![i] = x]

\* Requests in flight whose order of issue plays no part are kept as bags.
Issue(b, r) == b (+) SetToBag({r})
Settle(b, r) == b (-) SetToBag({r})

\* Message ids: `temp-${Date.now()}` against the ids the server assigns.
TempId(n) == <<"temp", n>>
ServerId(n) == <<"srv", n>>
IsTempId(id) == id[1] = "temp"

\* The messages of a conversation's first stored exchange.
ServerMessage(n, role, content, conv) ==
  [id |-> ServerId(n), role |-> role, content |-> content, conv |-> conv]

VARIABLES
  \* React state of ChatPage
  message,                 \* the input buffer
  messages,                \* the transcript
  conversations,           \* the directory (sidebar), a sequence of conversation ids
  currentConversationId,   \* the active conversation id, Null in Draft
  isLoading,               \* the sending flag
  conversationId,          \* the route parameter (useParams)
  \* requests in flight
  sends, loads, refreshes, deletes,
  \* Remote Conversation Store
  srvOrder,                \* ids of the stored conversations, most recent first
  srvMsgs,                 \* conversation id -> its stored messages
  nextConvId, nextMsgId,
  \* history
  now,                     \* Date.now(), advanced by every accepted send
  nOps,                    \* the user operations so far
  ev                       \* what the last step of ChatPage settled, and its toast

client == <<message, messages, conversations, currentConversationId, isLoading,
            conversationId>>
network == <<sends, loads, refreshes, deletes>>
server == <<srvOrder, srvMsgs, nextConvId, nextMsgId>>
history == <<now, nOps>>
vars == <<client, network, server, history, ev>>

\* What the last step of ChatPage settled: a send or a delete (req, the request
\* whose response it consumed) or a rejected submit, with the toast it raised.
Event(op, toast, req) == [op |-> op, toast |-> toast, req |-> req]

\* A step that settles no send and no delete, and raises no toast.
NoEvent == Event("none", "none", <<>>)

\* ---- requests -----------------------------------------------------------
\* axios.get(`${API}/conversations/${uid}`).  after is history: the
\* conversation of the confirmed send that triggered the refresh, Null for the
\* refreshes of the mount and of a delete.
RefreshRequest == [phase |-> "req", data |-> <<>>, after |-> Null]

\* The refresh that the confirm of send r triggers.
RefreshAfterSend(r) == [RefreshRequest EXCEPT !.after = r.resp[1].conversation_id]

\* Mutant: the confirm triggers no refresh.
RefreshedAfterSend_Missing(rs, r) == rs

\* `fetchConversations(userId)` at the end of the try block: not awaited.
RefreshedAfterSend(rs, r) == Issue(rs, RefreshAfterSend(r))

\* axios.get(`${API}/conversation/${convId}`)
LoadRequest(convId) == [conv |-> convId, phase |-> "req", data |-> <<>>]

\* Mutant: the effect does not compare the route parameter with the active id.
RouteEffectFetches_NoCompare(routeId, currentId) == routeId # Null

\* useEffect on the route parameter: does its body call fetchConversation?
RouteEffectFetches(routeId, currentId) == routeId # Null /\ routeId # currentId

\* The loads in flight after the effect has run in a render whose route
\* parameter is routeId and whose active conversation id is currentId.
AfterRouteEffect(ls, routeId, currentId) ==
  IF RouteEffectFetches(routeId, currentId) THEN Issue(ls, LoadRequest(routeId)) ELSE ls

\* navigate(...): the route parameter goes from oldRoute to newRoute; the effect
\* runs only when its dependency [conversationId] changed.
AfterNavigate(ls, oldRoute, newRoute, currentId) ==
  IF newRoute # oldRoute THEN AfterRouteEffect(ls, newRoute, currentId) ELSE ls

\* ---- the store at mount -------------------------------------------------
InitOrder == <<2, 1>>

InitMsgs ==
  [c \in {1, 2} |->
     << ServerMessage(2 * c - 1, "user", <<"q">>, c),
        ServerMessage(2 * c, "assistant", <<"r">>, c) >>]

\* Mutant: the active conversation id starts absent.
InitialConversationId_Absent(routeId) == Null

\* `useState(conversationId || null)`
InitialConversationId(routeId) == IF routeId # Null THEN routeId ELSE Null

Init ==
  /\ conversationId \in {Null, 1}
  /\ currentConversationId = InitialConversationId(conversationId)
  /\ message = <<>>
  /\ messages = <<>>
  /\ conversations = <<>>
  /\ isLoading = FALSE
  /\ sends = <<>>
  /\ loads = AfterRouteEffect(EmptyBag, conversationId, currentConversationId)
  /\ refreshes = Issue(EmptyBag, RefreshRequest)
  /\ deletes = <<>>
  /\ srvOrder = InitOrder
  /\ srvMsgs = InitMsgs
  /\ nextConvId = 3
  /\ nextMsgId = 5
  /\ now = 0
  /\ nOps = 0
  /\ ev = Event("mount", "none", <<>>)

\* ---- the input ----------------------------------------------------------
\* onChange of the input; the input is disabled while isLoading.
TypeMessage(t) ==
  /\ ~isLoading
  /\ message' = t
  /\ ev' = NoEvent
  /\ UNCHANGED <<messages, conversations, currentConversationId, isLoading,
                 conversationId, network, server, history>>

\* onClick of a quick prompt; the prompts are rendered while the transcript is
\* empty, whether or not a send is in flight.
QuickPrompt(t) ==
  /\ messages = <<>>
  /\ message' = t
  /\ ev' = NoEvent
  /\ UNCHANGED <<messages, conversations, currentConversationId, isLoading,
                 conversationId, network, server, history>>

\* ---- handleSendMessage --------------------------------------------------
\* Mutant: the early return does not look at isLoading.
SendAccepts_NoLoadingCheck == Trim(message) # <<>>

\* `if (!message.trim() || isLoading) return;`
SendAccepts == Trim(message) # <<>> /\ ~isLoading

TempUserMsg(n, content, conv) ==
  [id |-> TempId(n), role |-> "user", content |-> content, conv |-> conv]

\* The POST /chat request, with what the closure of the handler holds:
\* userMessage, currentConversationId, tempUserMsg.id.  The other fields are
\* history: typed, the input buffer as submitted; before, the transcript before
\* the append; synced, whether that transcript was the stored history of the
\* active conversation; switched and replaced, whether the active conversation
\* id changed / the transcript was replaced wholesale since.
SendRequest(n, typed, convId, transcript, synced) ==
  [tempId |-> TempId(n), message |-> Trim(typed), conversation_id |-> convId,
   phase |-> "req", resp |-> <<>>,
   typed |-> typed, before |-> transcript, synced |-> synced,
   switched |-> FALSE, replaced |-> FALSE]

\* The transcript is the stored history of the active conversation (empty in Draft).
InSync ==
  IF currentConversationId = Null THEN messages = <<>>
  ELSE /\ currentConversationId \in DOMAIN srvMsgs
       /\ messages = srvMsgs[currentConversationId]

HandleSendMessage ==
  IF SendAccepts
  THEN /\ nOps < MaxOps
       /\ nOps' = nOps + 1
       /\ now' = now + 1
       /\ message' = <<>>
       /\ isLoading' = TRUE
       /\ messages' = Append(messages,
                              TempUserMsg(now', Trim(message), currentConversationId))
       /\ sends' = Append(sends,
                           SendRequest(now', message, currentConversationId, messages,
                                       InSync))
       /\ ev' = NoEvent
       /\ UNCHANGED <<conversations, currentConversationId, conversationId,
                      loads, refreshes, deletes, server>>
  ELSE /\ ev' = Event("sendRejected", "none", <<>>)
       /\ UNCHANGED <<client, network, server, history>>

\* Mutant: there is no finally block.
LoadingAfterSend_NotReset == isLoading

\* `finally { setIsLoading(false); }`
LoadingAfterSend == FALSE

\* Mutant: the reply is left out of the update that confirms the user message.
ConfirmedMessages_UserOnly(transcript, r) ==
  FilterOutId(transcript, r.tempId) \o <<r.resp[1].message>>

\* Mutant: the confirmed exchange is put in front of the transcript.
ConfirmedMessages_Prepended(transcript, r) ==
  <<r.resp[1].message, r.resp[1].guru_response>> \o FilterOutId(transcript, r.tempId)

\* The try block after the await.
ConfirmedMessages(transcript, r) ==
  FilterOutId(transcript, r.tempId) \o <<r.resp[1].message, r.resp[1].guru_response>>

\* `if (!currentConversationId)` reads the closure of the handler.
AdoptsConversationId(r) == r.conversation_id = Null

\* Mutant: the confirm also moves the conversation to the top of the directory.
SendSuccess_UpdatesDirectory(i) ==
  LET r == sends[i]
      conv == r.resp[1].conversation_id
  IN
  /\ r.phase = "ok"
  /\ messages' = ConfirmedMessages(messages, r)
  /\ conversations' = <<conv>> \o SelectSeq(conversations, LAMBDA c : c # conv)
  /\ IF AdoptsConversationId(r)
     THEN /\ currentConversationId' = conv
          /\ conversationId' = conv
     ELSE UNCHANGED <<currentConversationId, conversationId>>
  /\ loads' = AfterNavigate(loads, conversationId, conversationId', currentConversationId')
  /\ refreshes' = RefreshedAfterSend(refreshes, r)
  /\ isLoading' = LoadingAfterSend
  /\ sends' = RemoveAt(sends, i)
  /\ ev' = Event("sendSuccess", "none", <<r>>)
  /\ UNCHANGED <<message, deletes, server, history>>

SendSuccess(i) ==
  LET r == sends[i] IN
  /\ r.phase = "ok"
  /\ messages' = ConfirmedMessages(messages, r)
  /\ IF AdoptsConversationId(r)
     THEN /\ currentConversationId' = r.resp[1].conversation_id
          /\ conversationId' = r.resp[1].conversation_id
     ELSE UNCHANGED <<currentConversationId, conversationId>>
  /\ loads' = AfterNavigate(loads, conversationId, conversationId', currentConversationId')
  /\ refreshes' = RefreshedAfterSend(refreshes, r)
  /\ isLoading' = LoadingAfterSend
  /\ sends' = RemoveAt(sends, i)
  /\ ev' = Event("sendSuccess", "none", <<r>>)
  /\ UNCHANGED <<message, conversations, deletes, server, history>>

\* Mutant: the optimistic message is not removed.
RolledBack_KeepsPending(transcript, r) == transcript

\* Mutant: the input buffer is not repopulated.
RestoredInput_Empty(r) == <<>>

\* The catch block: the request failed (network error or non-success status).
RolledBack(transcript, r) == FilterOutId(transcript, r.tempId)

RestoredInput(r) == r.message

\* Mutant: the directory refresh sits in the finally block.
SendFail_RefreshesDirectory(i) ==
  LET r == sends[i] IN
  /\ r.phase = "req"
  /\ messages' = RolledBack(messages, r)
  /\ message' = RestoredInput(r)
  /\ isLoading' = LoadingAfterSend
  /\ sends' = RemoveAt(sends, i)
  /\ refreshes' = Issue(refreshes, RefreshRequest)
  /\ ev' = Event("sendFail", "error", <<r>>)
  /\ UNCHANGED <<conversations, currentConversationId, conversationId,
                 loads, deletes, server, history>>

SendFail(i) ==
  LET r == sends[i] IN
  /\ r.phase = "req"
  /\ messages' = RolledBack(messages, r)
  /\ message' = RestoredInput(r)
  /\ isLoading' = LoadingAfterSend
  /\ sends' = RemoveAt(sends, i)
  /\ ev' = Event("sendFail", "error", <<r>>)
  /\ UNCHANGED <<conversations, currentConversationId, conversationId,
                 loads, refreshes, deletes, server, history>>

\* ---- navigation ---------------------------------------------------------
\* History kept in the sends in flight.
MarkSwitched(ss, changed) ==
  [k \in 1..Len(ss) |-> [ss[k] EXCEPT !.switched = @ \/ changed]]

MarkReplaced(ss) == [k \in 1..Len(ss) |-> [ss[k] EXCEPT !.replaced = TRUE]]

\* The state updates of handleNewConversation.
ResetToDraft ==
  /\ currentConversationId' = Null
  /\ messages' = <<>>
  /\ conversationId' = Null
  /\ loads' = AfterNavigate(loads, conversationId, Null, Null)
  /\ sends' = MarkReplaced(MarkSwitched(sends, currentConversationId # Null))

\* Mutant: starting a new conversation re-enables the input.
HandleNewConversation_ClearsLoading ==
  /\ nOps < MaxOps
  /\ nOps' = nOps + 1
  /\ ResetToDraft
  /\ isLoading' = FALSE
  /\ ev' = NoEvent
  /\ UNCHANGED <<message, conversations, refreshes, deletes, server, now>>

HandleNewConversation ==
  /\ nOps < MaxOps
  /\ nOps' = nOps + 1
  /\ ResetToDraft
  /\ ev' = NoEvent
  /\ UNCHANGED <<message, conversations, isLoading, refreshes, deletes, server,
                 now>>

\* The sidebar renders one item per entry of the directory.
HandleSelectConversation(convId) ==
  /\ convId \in Range(conversations)
  /\ nOps < MaxOps
  /\ nOps' = nOps + 1
  /\ currentConversationId' = convId
  /\ conversationId' = convId
  /\ loads' = AfterNavigate(Issue(loads, LoadRequest(convId)),
                            conversationId, convId, convId)
  /\ sends' = MarkSwitched(sends, currentConversationId # convId)
  /\ ev' = NoEvent
  /\ UNCHANGED <<message, messages, conversations, isLoading, refreshes, deletes,
                 server, now>>

\* ---- fetchConversation --------------------------------------------------
\* `setMessages(response.data.messages || [])`
LoadApply(r) ==
  /\ r.phase = "ok"
  /\ messages' = r.data
  /\ loads' = Settle(loads, r)
  /\ sends' = MarkReplaced(sends)
  /\ ev' = NoEvent
  /\ UNCHANGED <<message, conversations, currentConversationId, isLoading,
                 conversationId, refreshes, deletes, server, history>>

\* The catch block only logs to the console.
LoadFail(r) ==
  /\ r.phase = "req"
  /\ loads' = Settle(loads, r)
  /\ ev' = NoEvent
  /\ UNCHANGED <<client, sends, refreshes, deletes, server, history>>

\* ---- fetchConversations -------------------------------------------------
RefreshApply(r) ==
  /\ r.phase = "ok"
  /\ conversations' = r.data
  /\ refreshes' = Settle(refreshes, r)
  /\ ev' = NoEvent
  /\ UNCHANGED <<message, messages, currentConversationId, isLoading,
                 conversationId, sends, loads, deletes, server, history>>

RefreshFail(r) ==
  /\ r.phase = "req"
  /\ refreshes' = Settle(refreshes, r)
  /\ ev' = NoEvent
  /\ UNCHANGED <<client, sends, loads, deletes, server, history>>

\* ---- handleDeleteConversation -------------------------------------------
\* The DELETE request, with the currentConversationId of the handler's closure.
DeleteRequest(convId, currentId) == [conv |-> convId, cur |-> currentId, phase |-> "req"]

HandleDeleteConversation(convId) ==
  /\ convId \in Range(conversations)
  /\ nOps < MaxOps
  /\ nOps' = nOps + 1
  /\ deletes' = Append(deletes, DeleteRequest(convId, currentConversationId))
  /\ ev' = NoEvent
  /\ UNCHANGED <<client, sends, loads, refreshes, server, now>>

\* `if (convId === currentConversationId)` reads the closure of the handler.
DeletedIsActive(r) == r.conv = r.cur

DeleteSuccess(i) ==
  LET r == deletes[i] IN
  /\ r.phase = "ok"
  /\ deletes' = RemoveAt(deletes, i)
  /\ refreshes' = Issue(refreshes, RefreshRequest)
  /\ IF DeletedIsActive(r)
     THEN ResetToDraft
     ELSE UNCHANGED <<currentConversationId, messages, conversationId, loads, sends>>
  /\ ev' = Event("deleteSuccess", "success", <<r>>)
  /\ UNCHANGED <<message, conversations, isLoading, server, history>>

\* Mutant: the catch block also leaves a deleted active conversation.
DeleteFail_ResetsToDraft(i) ==
  LET r == deletes[i] IN
  /\ r.phase = "req"
  /\ deletes' = RemoveAt(deletes, i)
  /\ IF DeletedIsActive(r)
     THEN ResetToDraft
     ELSE UNCHANGED <<currentConversationId, messages, conversationId, loads, sends>>
  /\ ev' = Event("deleteFail", "error", <<r>>)
  /\ UNCHANGED <<message, conversations, isLoading, refreshes, server, history>>

DeleteFail(i) ==
  LET r == deletes[i] IN
  /\ r.phase = "req"
  /\ deletes' = RemoveAt(deletes, i)
  /\ ev' = Event("deleteFail", "error", <<r>>)
  /\ UNCHANGED <<client, sends, loads, refreshes, server, history>>

\* ---- Remote Conversation Store -------------------------------------------
RECURSIVE Without(_, _)
Without(s, x) ==
  IF s = <<>> THEN <<>>
  ELSE IF Head(s) = x THEN Without(Tail(s), x) ELSE <<Head(s)>> \o Without(Tail(s), x)

\* POST /chat: records the user message and the reply, in a new conversation
\* when the request carries no conversation id.
ServerChat(i) ==
  LET r == sends[i]
      conv == IF r.conversation_id = Null THEN nextConvId ELSE r.conversation_id
      um == ServerMessage(nextMsgId, "user", r.message, conv)
      am == ServerMessage(nextMsgId + 1, "assistant", <<"r">>, conv)
      old == IF conv \in DOMAIN srvMsgs THEN srvMsgs[conv] ELSE <<>>
  IN
  /\ r.phase = "req"
  /\ r.conversation_id = Null \/ r.conversation_id \in Range(srvOrder)
  /\ srvMsgs' = [c \in DOMAIN srvMsgs \cup {conv} |->
                   IF c = conv THEN old \o <<um, am>> ELSE srvMsgs[c]]
  /\ srvOrder' = <<conv>> \o Without(srvOrder, conv)
  /\ nextMsgId' = nextMsgId + 2
  /\ nextConvId' = IF r.conversation_id = Null THEN nextConvId + 1 ELSE nextConvId
  /\ sends' = ReplaceAt(sends, i,
        [r EXCEPT !.phase = "ok",
                  !.resp = <<[conversation_id |-> conv, message |-> um,
                              guru_response |-> am]>>])
  /\ UNCHANGED <<ev, client, loads, refreshes, deletes, history>>

\* GET /conversation/{id}
ServerLoad(r) ==
  /\ r.phase = "req"
  /\ r.conv \in Range(srvOrder)
  /\ loads' = Issue(Settle(loads, r), [r EXCEPT !.phase = "ok", !.data = srvMsgs[r.conv]])
  /\ UNCHANGED <<ev, client, sends, refreshes, deletes, server, history>>

\* GET /conversations/{uid}
ServerList(r) ==
  /\ r.phase = "req"
  /\ refreshes' = Issue(Settle(refreshes, r), [r EXCEPT !.phase = "ok", !.data = srvOrder])
  /\ UNCHANGED <<ev, client, sends, loads, deletes, server, history>>

\* DELETE /conversation/{id}
ServerDelete(i) ==
  LET r == deletes[i] IN
  /\ r.phase = "req"
  /\ r.conv \in Range(srvOrder)
  /\ srvOrder' = Without(srvOrder, r.conv)
  /\ srvMsgs' = [c \in DOMAIN srvMsgs \ {r.conv} |-> srvMsgs[c]]
  /\ deletes' = ReplaceAt(deletes, i, [r EXCEPT !.phase = "ok"])
  /\ UNCHANGED <<ev, client, sends, loads, refreshes, nextConvId, nextMsgId, history>>

\* ---- the program --------------------------------------------------------
ConvIds == 1..(2 + MaxOps)

Next ==
  \/ \E t \in Inputs : TypeMessage(t)
  \/ \E t \in Prompts : QuickPrompt(t)
  \/ HandleSendMessage
  \/ \E i \in DOMAIN sends : SendSuccess(i)
  \/ \E i \in DOMAIN sends : SendFail(i)
  \/ HandleNewConversation
  \/ \E c \in ConvIds : HandleSelectConversation(c)
  \/ \E r \in BagToSet(loads) : LoadApply(r)
  \/ \E r \in BagToSet(loads) : LoadFail(r)
  \/ \E r \in BagToSet(refreshes) : RefreshApply(r)
  \/ \E r \in BagToSet(refreshes) : RefreshFail(r)
  \/ \E c \in ConvIds : HandleDeleteConversation(c)
  \/ \E i \in DOMAIN deletes : DeleteSuccess(i)
  \/ \E i \in DOMAIN deletes : DeleteFail(i)
  \/ \E i \in DOMAIN sends : ServerChat(i)
  \/ \E r \in BagToSet(loads) : ServerLoad(r)
  \/ \E r \in BagToSet(refreshes) : ServerList(r)
  \/ \E i \in DOMAIN deletes : ServerDelete(i)

Spec == Init /\ [][Next]_vars

\* The network answers every POST /chat with success or failure, and the
\* continuation of the await then runs.
SendCompletes ==
  \E i \in DOMAIN sends : ServerChat(i) \/ SendSuccess(i) \/ SendFail(i)

FairSpec == Spec /\ WF_vars(SendCompletes)

\* ---- properties ---------------------------------------------------------
\* A text of whitespace only, the empty text included.
IsBlank(s) == \A k \in DOMAIN s : s[k] = " "

PendingCount(ms) == Cardinality({ k \in 1..Len(ms) : IsTempId(ms[k].id) })

ConfirmedCount(ms) == Cardinality({ k \in 1..Len(ms) : ~IsTempId(ms[k].id) })

\* C1: in every reachable state the transcript holds at most one pending
\* (temp-id) user message.
C1_AtMostOnePending == PendingCount(messages) <= 1

\* C1 witness: the second accepted send of a behaviour has its pending message
\* in the transcript.
C1_Witness == now = 2 /\ PendingCount(messages) = 1 /\ Len(sends) = 1

\* C2 (as claimed): when the active conversation id changed while a send was in
\* flight, the success of that send adds neither its user message nor its reply
\* to the transcript and leaves the active conversation id alone.
C2_SwitchedSendDiscarded ==
  [][\A i \in DOMAIN sends :
       (SendSuccess(i) /\ sends[i].switched) =>
         /\ sends[i].resp[1].message \notin Range(messages')
         /\ sends[i].resp[1].guru_response \notin Range(messages')
         /\ currentConversationId' = currentConversationId]_vars

\* C3 (as claimed): after a failed send the transcript is what it was before
\* the pending message was appended and the input buffer holds the text as the
\* user submitted it.
C3_FailRestoresOriginal ==
  [][\A i \in DOMAIN sends :
       SendFail(i) => /\ messages' = sends[i].before
                      /\ message' = sends[i].typed]_vars

\* C3 (amended): after a failed send during which the transcript was not
\* replaced (no history load applied, no reset to a new conversation), the
\* transcript is what it was before the pending message was appended, and the
\* input buffer holds the trimmed text that was sent.
C3_FailRestoresTrimmed ==
  [][\A i \in DOMAIN sends :
       (SendFail(i) /\ ~sends[i].replaced) =>
          /\ messages' = sends[i].before
          /\ message' = Trim(sends[i].typed)]_vars

\* C3 witness: a send of padded text from a non-empty transcript has failed.
C3_Witness ==
  /\ ev.op = "sendFail"
  /\ ~ev.req[1].replaced
  /\ ev.req[1].typed = <<" ", "d", " ">>
  /\ ev.req[1].before # <<>>
  /\ messages = ev.req[1].before
  /\ message = <<"d">>

\* C4 (as claimed): after a successful send, whatever history loads were
\* applied meanwhile, the transcript has no pending entry of that send and
\* exactly two confirmed messages more than before the pending message was
\* appended.  Stated for the sends whose conversation stayed the active one and
\* whose transcript showed that conversation's stored history when the pending
\* message was appended.
C4_SuccessAddsTwo ==
  [][\A i \in DOMAIN sends :
       (SendSuccess(i) /\ ~sends[i].switched /\ sends[i].synced) =>
          /\ \A k \in DOMAIN messages' : messages'[k].id # sends[i].tempId
          /\ ConfirmedCount(messages') = ConfirmedCount(sends[i].before) + 2]_vars

\* C5: a send attempted while a send is in flight issues no request and leaves
\* the transcript, the input buffer and the active conversation id unchanged.
C5_ConcurrentSendRejected ==
  [][(sends # <<>> /\ HandleSendMessage) =>
        /\ sends' = sends
        /\ messages' = messages
        /\ message' = message
        /\ currentConversationId' = currentConversationId]_vars

\* C5 witness: a send of a non-blank text (a quick prompt picked after a new
\* conversation) was attempted, and rejected, with a send in flight.
C5_Witness ==
  ev.op = "sendRejected" /\ Len(sends) = 1 /\ isLoading /\ ~IsBlank(message)

\* C6: a send whose text is empty after trimming appends no pending message,
\* issues no request and changes no state.
C6_BlankSendRejected ==
  [][(IsBlank(message) /\ HandleSendMessage) =>
        UNCHANGED <<client, network, server>>]_vars

\* C6 witness: a whitespace-only text was submitted with no send in flight.
C6_Witness ==
  ev.op = "sendRejected" /\ message = <<" ">> /\ ~isLoading /\ sends = <<>>

\* C7 (as claimed): when a delete succeeds for the conversation that is active
\* when the response is handled, the active conversation id becomes absent and
\* the transcript is cleared.
C7_DeleteActiveGoesToDraft ==
  [][\A i \in DOMAIN deletes :
       (DeleteSuccess(i) /\ deletes[i].conv = currentConversationId) =>
          /\ currentConversationId' = Null
          /\ messages' = <<>>]_vars

\* C8: when a send issued in Draft succeeds and the active conversation id was
\* not changed meanwhile, the active conversation id becomes the id the server
\* assigned, no history load is issued, and the transcript ends with the
\* confirmed user message and the reply.
C8_DraftAdoptsIdWithoutReload ==
  [][\A i \in DOMAIN sends :
       (SendSuccess(i) /\ sends[i].conversation_id = Null /\ ~sends[i].switched) =>
          /\ currentConversationId' = sends[i].resp[1].conversation_id
          /\ loads' = loads
          /\ Len(messages') >= 2
          /\ messages'[Len(messages') - 1] = sends[i].resp[1].message
          /\ messages'[Len(messages')] = sends[i].resp[1].guru_response]_vars

\* C8 witness: the first send of a draft has succeeded, the active id is the
\* new conversation's and no load is in flight.
C8_Witness ==
  /\ ev.op = "sendSuccess"
  /\ ev.req[1].conversation_id = Null
  /\ ~ev.req[1].switched
  /\ ~ev.req[1].replaced
  /\ currentConversationId = ev.req[1].resp[1].conversation_id
  /\ conversationId = currentConversationId
  /\ loads = EmptyBag
  /\ messages = <<ev.req[1].resp[1].message, ev.req[1].resp[1].guru_response>>

\* C9: in no reachable state does the transcript show a server-confirmed user
\* message without the assistant's reply to it right after it.
C9_ConfirmAtomic ==
  \A k \in DOMAIN messages :
    (messages[k].role = "user" /\ ~IsTempId(messages[k].id)) =>
       /\ k < Len(messages)
       /\ messages[k + 1].role = "assistant"
       /\ messages[k + 1].id = ServerId(messages[k].id[2] + 1)
       /\ messages[k + 1].conv = messages[k].conv

\* C9 witness: a send has just been confirmed after earlier messages.
C9_Witness ==
  /\ ev.op = "sendSuccess"
  /\ Len(messages) >= 4
  /\ messages[Len(messages) - 1] = ev.req[1].resp[1].message
  /\ messages[Len(messages)] = ev.req[1].resp[1].guru_response

\* C10 (as claimed): the response of a history load for a conversation that is
\* not the active one is discarded: it does not replace the transcript.
C10_StaleLoadDiscarded ==
  [][\A r \in BagToSet(loads) :
       (LoadApply(r) /\ r.conv # currentConversationId) =>
          messages' = messages]_vars

\* C11: a failed send that was issued in Draft changes neither the active
\* conversation id nor the route, issues no directory refresh and leaves the
\* directory unchanged; a view still in Draft stays in Draft.
C11_FailedDraftSendStaysDraft ==
  [][\A i \in DOMAIN sends :
       (SendFail(i) /\ sends[i].conversation_id = Null) =>
          /\ currentConversationId' = currentConversationId
          /\ conversationId' = conversationId
          /\ (~sends[i].switched => currentConversationId' = Null)
          /\ refreshes' = refreshes
          /\ conversations' = conversations]_vars

\* C11 witness: the first send of a draft has failed with the directory
\* loaded; the view is in Draft and no refresh is in flight.
C11_Witness ==
  /\ ev.op = "sendFail"
  /\ ev.req[1].conversation_id = Null
  /\ ~ev.req[1].switched
  /\ currentConversationId = Null
  /\ conversationId = Null
  /\ conversations # <<>>
  /\ refreshes = EmptyBag

\* C12 (as claimed): once a delete has succeeded and no directory refresh is
\* outstanding, the directory does not list the deleted conversation.  (The
\* conversations that left the store are the deleted ones; a delete still in
\* flight has not had its response handled yet.)
C12_DeletedLeavesDirectory ==
  refreshes = EmptyBag =>
    \A c \in Range(conversations) :
       \/ c \in Range(srvOrder)
       \/ \E i \in DOMAIN deletes : deletes[i].conv = c

\* C13: the directory changes only in a step that applies a directory-refresh
\* response or handles a successful delete; appending, confirming and rolling
\* back a send and applying or failing a history load leave it unchanged.
C13_DirectoryWriters ==
  [][\/ conversations' = conversations
     \/ \E r \in BagToSet(refreshes) : RefreshApply(r)
     \/ \E i \in DOMAIN deletes : DeleteSuccess(i)]_vars

\* C13 witness: a send to a new conversation has been confirmed and the
\* loaded directory does not list that conversation.
C13_Witness ==
  /\ ev.op = "sendSuccess"
  /\ conversations # <<>>
  /\ ev.req[1].resp[1].conversation_id \notin Range(conversations)
  /\ ev.req[1].resp[1].message \in Range(messages)

\* The confirm of a send issues one more refresh request, leaves the transcript
\* confirmed and clears the sending flag in the same step.
RefreshTriggered(i) ==
  /\ CopiesIn(RefreshAfterSend(sends[i]), refreshes')
       = CopiesIn(RefreshAfterSend(sends[i]), refreshes) + 1
  /\ sends[i].resp[1].message \in Range(messages')
  /\ isLoading' = FALSE

\* C14 (as claimed): every successful send triggers a directory refresh
\* without waiting for it, and when the response of that refresh is applied the
\* directory lists the conversation the send was recorded in.
C14_RefreshListsConversation ==
  [][/\ \A i \in DOMAIN sends : SendSuccess(i) => RefreshTriggered(i)
     /\ \A r \in BagToSet(refreshes) :
          (RefreshApply(r) /\ r.after # Null) =>
             r.after \in Range(conversations')]_vars

\* C14 (amended): every successful send triggers a directory refresh without
\* waiting for it, and when the response of that refresh is applied the
\* directory lists the conversation the send was recorded in, unless that
\* conversation has been deleted from the store.
C14_RefreshListsStoredConversation ==
  [][/\ \A i \in DOMAIN sends : SendSuccess(i) => RefreshTriggered(i)
     /\ \A r \in BagToSet(refreshes) :
          (RefreshApply(r) /\ r.after # Null /\ r.after \in Range(srvOrder)) =>
             r.after \in Range(conversations')]_vars

\* C14 witness: the first send of a draft was confirmed and the refresh it
\* triggered has been applied: the directory lists the new conversation.
C14_Witness ==
  /\ currentConversationId = 3
  /\ 3 \in Range(conversations)
  /\ ~isLoading
  /\ sends = <<>>

\* C15 (as claimed): every failed remote call (send, history load, directory
\* refresh, delete) is handled in a step of the component that raises an error
\* notification.
C15_FailuresNotify ==
  [][(\/ \E i \in DOMAIN sends : SendFail(i)
      \/ \E r \in BagToSet(loads) : LoadFail(r)
      \/ \E r \in BagToSet(refreshes) : RefreshFail(r)
      \/ \E i \in DOMAIN deletes : DeleteFail(i))
     => ev'.toast = "error"]_vars

\* C16: as mounted, the active conversation id is the one the route supplies,
\* and with no id in the route it is absent and the transcript is empty.
C16_MountState ==
  ev.op = "mount" =>
    /\ conversationId # Null => currentConversationId = conversationId
    /\ conversationId = Null => currentConversationId = Null /\ messages = <<>>

\* C16 witness: the page as mounted on the route of conversation 1.
C16_Witness ==
  /\ ev.op = "mount"
  /\ conversationId = 1
  /\ currentConversationId = 1
  /\ nOps = 0

\* C17: whenever the active conversation id is absent, the transcript is empty
\* or holds only the pending message of the in-flight first send of this draft.
C17_DraftTranscriptOwn ==
  currentConversationId = Null =>
    \/ messages = <<>>
    \/ /\ Len(messages) = 1
       /\ \E i \in DOMAIN sends : /\ sends[i].conversation_id = Null
                                  /\ ~sends[i].switched
                                  /\ messages[1].id = sends[i].tempId

\* C18: a step of selecting a conversation other than the active one leaves no
\* message of the previously active conversation in the transcript.
C18_SwitchReplacesTranscript ==
  [][\A c \in ConvIds :
       (HandleSelectConversation(c) /\ c # currentConversationId) =>
          \A k \in DOMAIN messages' : messages'[k].conv # currentConversationId]_vars

\* C19: once the page is mounted on the route of a conversation, a history
\* load for that conversation is in flight or the transcript is its stored
\* history.
C19_MountLoadsHistory ==
  (ev.op = "mount" /\ conversationId # Null) =>
     \/ \E r \in BagToSet(loads) : r.conv = conversationId
     \/ messages = srvMsgs[conversationId]

\* C20: every accepted send eventually completes: no send is in flight, the
\* transcript has no pending message and the input accepts a new send.
C20_SendCompletes ==
  (sends # <<>>) ~> (sends = <<>> /\ ~isLoading /\ PendingCount(messages) = 0)

\* C20 witness: a send has failed, after which nothing is in flight or pending
\* and the input is enabled again.
C20_Witness ==
  /\ ev.op = "sendFail"
  /\ sends = <<>>
  /\ ~isLoading
  /\ PendingCount(messages) = 0
  /\ ev.req[1].conversation_id # Null

\* C21: when a delete request fails, the directory, the transcript and the
\* active conversation id are unchanged and an error notification is raised.
C21_DeleteFailKeepsState ==
  [][\A i \in DOMAIN deletes :
       DeleteFail(i) =>
          /\ conversations' = conversations
          /\ messages' = messages
          /\ currentConversationId' = currentConversationId
          /\ ev'.toast = "error"]_vars

\* C21 witness: the delete of the active conversation, whose history is shown,
\* has failed.
C21_Witness ==
  /\ ev.op = "deleteFail"
  /\ ev.toast = "error"
  /\ ev.req[1].conv = currentConversationId
  /\ ev.req[1].cur = currentConversationId
  /\ messages # <<>>
  /\ currentConversationId \in Range(conversations)

\* C22: when every send in flight was issued for a transcript the user has
\* navigated away from, a submit of non-blank text is accepted.
C22_SendAcceptedAfterSwitch ==
  (/\ sends # <<>>
   /\ \A i \in DOMAIN sends : sends[i].switched
   /\ ~IsBlank(message)) => SendAccepts

\* The messages of a transcript other than the one with the given id, in order.
Others(ms, id) == SelectSeq(ms, LAMBDA m : m.id # id)

\* C23: an accepted send appends the pending message after the messages
\* already shown; a confirmation or a rollback keeps the other messages in
\* their order; the pending entry is the last one, and the confirmed user
\* message and the reply take its place at the end.
C23_AppendOrder ==
  [][/\ (HandleSendMessage /\ SendAccepts) =>
          /\ Len(messages') = Len(messages) + 1
          /\ SubSeq(messages', 1, Len(messages)) = messages
          /\ IsTempId(messages'[Len(messages')].id)
     /\ \A i \in DOMAIN sends :
          /\ \A k \in DOMAIN messages :
                messages[k].id = sends[i].tempId => k = Len(messages)
          /\ SendSuccess(i) =>
                messages' = Others(messages, sends[i].tempId)
                              \o <<sends[i].resp[1].message, sends[i].resp[1].guru_response>>
          /\ SendFail(i) => messages' = Others(messages, sends[i].tempId)]_vars

\* C23 witness: a send was confirmed behind the loaded history of its
\* conversation.
C23_Witness ==
  /\ ev.op = "sendSuccess"
  /\ ~ev.req[1].replaced
  /\ Len(ev.req[1].before) = 2
  /\ Len(messages) = 4
  /\ SubSeq(messages, 1, 2) = ev.req[1].before
  /\ messages[4] = ev.req[1].resp[1].guru_response

\* C24: no two messages of the transcript share an id.
C24_UniqueMessageIds ==
  \A j, k \in DOMAIN messages : messages[j].id = messages[k].id => j = k

\* C25: a successful delete of a conversation that is not the active one when
\* the response is handled leaves the active conversation id and the
\* transcript unchanged.
C25_DeleteInactiveKeepsView ==
  [][\A i \in DOMAIN deletes :
       (DeleteSuccess(i) /\ deletes[i].conv # currentConversationId) =>
          /\ currentConversationId' = currentConversationId
          /\ messages' = messages]_vars

\* C26: isLoading is true exactly when a send request is outstanding, and only
\* an accepted submit and the settling of a send change it.
C26_LoadingIffSendOutstanding ==
  [][/\ isLoading <=> sends # <<>>
     /\ isLoading' <=> sends' # <<>>
     /\ isLoading' # isLoading =>
          \/ HandleSendMessage /\ SendAccepts /\ isLoading'
          \/ \E i \in DOMAIN sends : (SendSuccess(i) \/ SendFail(i)) /\ ~isLoading']_vars

\* C26 witness: a send is outstanding while the user has navigated away from
\* its conversation, and the flag is still set.
C26_Witness ==
  /\ isLoading
  /\ Len(sends) = 1
  /\ sends[1].switched
  /\ sends[1].phase = "ok"
  /\ currentConversationId = Null

====
